---- MODULE Spec2Model ----
(***************************************************************************)
(* Model of the enabled-feature resolution flow of money-coach:            *)
(*   getEnabledFeatures (shared/services/http.ts)                          *)
(*   useEnabledFeatures (hooks/useEnabledFeatures.ts)                      *)
(*   FinancialProductsScreen (screens/FinancialProductsScreen.tsx)         *)
(* One hook instance, its in-flight fetches and the screen that renders    *)
(* the hook's state.  State updates made in one synchronous continuation   *)
(* are applied together (React 19 batches them), so every handler is one   *)
(* atomic action.                                                          *)
(***************************************************************************)
EXTENDS Integers, Sequences, FiniteSets, TLC

\* ---------------------------------------------------------------- bounds
MaxCalls == 2          \* calls to the fetch client in one behaviour
MaxFeatures == 2       \* entries in one features map

\* ------------------------------------------------------- nullable values
NULL == <<>>
Some(v) == <<v>>

\* ------------------------------------------------------------ input sets
\* partnerId props given to the hook; "" is the empty (falsy) id
PartnerIds == {"", "p1", "p2"}
\* partnerId fields a response body can carry
ResponsePartnerIds == {"p1", "p2"}
\* feature names a payload can carry
PayloadNames == {"AVC", "Wills"}
\* status strings a payload can carry; "Enabled" is not a recognised literal
Statuses == {"enabled", "disabled", "Enabled"}

\* sequences over S of length at most n
RECURSIVE SeqsUpTo(_, _)
SeqsUpTo(S, n) ==
    IF n = 0 THEN {<<>>}
    ELSE LET shorter == SeqsUpTo(S, n - 1)
         IN  shorter \cup {Append(s, x) : s \in {t \in shorter : Len(t) = n - 1}, x \in S}

\* features maps: entries in iteration order, keys unique
FeatureMaps ==
    {m \in SeqsUpTo(PayloadNames \X Statuses, MaxFeatures) :
        \A i, j \in 1..Len(m) : i /= j => m[i][1] /= m[j][1]}

\* response bodies of GET /api/partners/{partnerId}/features; features is
\* NULL when the body lacks the key
Bodies ==
    [partnerId : ResponsePartnerIds, features : {Some(m) : m \in FeatureMaps} \cup {NULL}]

\* values a rejected request carries: an Error object and a plain string
Rejections ==
    { [isError |-> TRUE, value |-> "Network error"],
      [isError |-> FALSE, value |-> "String error"] }

\* ------------------------------------------------------- static catalog
\* the catalog with the display name used as a screen name
FINANCIAL_PRODUCTS_NameAsScreen ==
    << [id |-> "fp1", name |-> "AVC", screenName |-> "AVC"],
       [id |-> "fp2", name |-> "Mortgages", screenName |-> "Mortgages"],
       [id |-> "fp3", name |-> "Wills", screenName |-> "Wills"],
       [id |-> "fp4", name |-> "Protection", screenName |-> "Protection"],
       [id |-> "fp5", name |-> "Payroll Savings", screenName |-> "Payroll Savings"] >>

FINANCIAL_PRODUCTS ==
    << [id |-> "fp1", name |-> "AVC", screenName |-> "AVC"],
       [id |-> "fp2", name |-> "Mortgages", screenName |-> "Mortgages"],
       [id |-> "fp3", name |-> "Wills", screenName |-> "Wills"],
       [id |-> "fp4", name |-> "Protection", screenName |-> "Protection"],
       [id |-> "fp5", name |-> "Payroll Savings", screenName |-> "PayrollSavings"] >>

\* ---------------------------------------------------- getEnabledFeatures
\* the decoder collecting the names back to front
RECURSIVE EnabledFeatureNamesReversed(_)
EnabledFeatureNamesReversed(features) ==
    IF features = <<>> THEN <<>>
    ELSE LET entry == Head(features)
             rest == EnabledFeatureNamesReversed(Tail(features))
         IN  IF entry[2] = "enabled" THEN rest \o <<entry[1]>> ELSE rest

\* the decoder comparing the status without regard to case
RECURSIVE EnabledFeatureNamesAnyCase(_)
EnabledFeatureNamesAnyCase(features) ==
    IF features = <<>> THEN <<>>
    ELSE LET entry == Head(features)
             rest == EnabledFeatureNamesAnyCase(Tail(features))
         IN  IF entry[2] \in {"enabled", "Enabled", "ENABLED"}
             THEN <<entry[1]>> \o rest ELSE rest

\* Object.entries(features).filter(status === 'enabled').map(name)
RECURSIVE EnabledFeatureNames(_)
EnabledFeatureNames(features) ==
    IF features = <<>> THEN <<>>
    ELSE LET entry == Head(features)
             rest == EnabledFeatureNames(Tail(features))
         IN  IF entry[2] = "enabled" THEN <<entry[1]>> \o rest ELSE rest

\* the TypeError Object.entries throws on an undefined argument
EntriesTypeError ==
    [isError |-> TRUE, value |-> "Cannot convert undefined or null to object"]

\* getEnabledFeatures reading a missing features key as an empty map
GetEnabledFeaturesLenient(http) ==
    IF ~http.ok THEN [ok |-> FALSE, err |-> http.err]
    ELSE [ok |-> TRUE,
          value |-> [partnerId |-> http.body.partnerId,
                     enabledFeatureNames |->
                         IF http.body.features = NULL THEN <<>>
                         ELSE EnabledFeatureNames(http.body.features[1])]]

\* settlement of the promise returned by getEnabledFeatures, given how the
\* http.get promise settled
GetEnabledFeatures(http) ==
    IF ~http.ok THEN [ok |-> FALSE, err |-> http.err]
    ELSE IF http.body.features = NULL THEN [ok |-> FALSE, err |-> EntriesTypeError]
    ELSE [ok |-> TRUE,
          value |-> [partnerId |-> http.body.partnerId,
                     enabledFeatureNames |-> EnabledFeatureNames(http.body.features[1])]]

\* ----------------------------------------------------- useEnabledFeatures
VARIABLES
    partnerId,         \* the partnerId prop of the latest render
    mounted,           \* the mount effect has run
    enabledFeatures,   \* useState: NULL or Some(EnabledFeatures)
    isLoading,         \* useState
    error,             \* useState: NULL or Some(message)
    inflight,          \* calls to getEnabledFeatures not yet settled, in call order
    calls,             \* number of calls made to getEnabledFeatures
    refetches,         \* number of refetch() calls
    partnerValues,     \* number of times partnerId took a new non-empty value
    rerendered,        \* a re-render that changed no prop has happened
    onlyEmpty,         \* partnerId has been empty since creation
    lastSettled,       \* NULL or Some(the fetch that settled last, with its result)
    escaped,           \* a rejection propagated out of fetchEnabledFeatures
    received           \* NULL or Some(the payload the fetch that stored enabledFeatures got)

\* the component tree: provider, consumer screen, tiles, navigator
VARIABLES
    uiHook,            \* what useEnabledFeatures returned to App in the latest render
    uiProvided,        \* the screen is rendered inside an EnabledFeaturesProvider
    uiContext,         \* value of EnabledFeaturesContext seen by the screen: NULL is undefined
    uiScreen,          \* what the latest render of FinancialProductsScreen produced
    uiPresses,         \* texts of the tiles pressed, in press order
    uiNavigated,       \* arguments of navigation.navigate, in call order
    uiEfRef,           \* which object the enabledFeatures prop of the latest render is: 0 is null
    uiMemo,            \* the useMemo cell of the provider: NULL or Some([deps, valueRef])
    uiValueKept        \* the latest provider render handed down: "none", "first", "same", "new"

\* the latest application of one of the pure functions
VARIABLES
    fnCall             \* [op, arg, out]

hookVars == <<partnerId, mounted, enabledFeatures, isLoading, error, inflight, calls,
              refetches, partnerValues, rerendered, onlyEmpty, lastSettled, escaped, received>>
uiVars == <<uiHook, uiProvided, uiContext, uiScreen, uiPresses, uiNavigated,
            uiEfRef, uiMemo, uiValueKept>>
fnVars == <<fnCall>>

vars == <<hookVars, uiVars, fnVars>>

\* the tree is not rendered and no function is applied
UiIdle ==
    /\ uiHook = NULL
    /\ uiProvided = FALSE
    /\ uiContext = NULL
    /\ uiScreen = NULL
    /\ uiPresses = <<>>
    /\ uiNavigated = <<>>
    /\ uiEfRef = 0
    /\ uiMemo = NULL
    /\ uiValueKept = "none"
FnIdle == fnCall = [op |-> "none"]

InitialEnabledFeatures == NULL
InitialIsLoadingFalse == FALSE
InitialIsLoading == TRUE
InitialError == NULL

Init ==
    /\ partnerId \in PartnerIds
    /\ mounted = FALSE
    /\ enabledFeatures = InitialEnabledFeatures
    /\ isLoading = InitialIsLoading
    /\ error = InitialError
    /\ inflight = <<>>
    /\ calls = 0
    /\ refetches = 0
    /\ partnerValues = 0
    /\ rerendered = FALSE
    /\ onlyEmpty = (partnerId = "")
    /\ lastSettled = NULL
    /\ escaped = FALSE
    /\ received = NULL
    /\ UiIdle
    /\ FnIdle

\* fetchEnabledFeatures keeping the previous error when it starts
ErrorOnStartKept(e) == e

\* setError(null) at the start of fetchEnabledFeatures
ErrorOnStart(e) == NULL

\* fetchEnabledFeatures up to its await: the two state writes and the call;
\* viaRefetch tells a call through refetch() from a call by the effect
FetchEnabledFeaturesStart(p, viaRefetch) ==
    /\ calls < MaxCalls
    /\ isLoading' = TRUE
    /\ error' = ErrorOnStart(error)
    /\ calls' = calls + 1
    /\ inflight' = Append([i \in 1..Len(inflight) |-> [inflight[i] EXCEPT !.overlapped = TRUE]],
                          [id |-> calls + 1, partnerId |-> p, overlapped |-> inflight /= <<>>,
                           refetch |-> viaRefetch, alone |-> inflight = <<>>])
    /\ UNCHANGED enabledFeatures

\* the effect without its condition
EffectGuardDropped(p) == TRUE

\* the condition of the effect: if (partnerId)
EffectGuard(p) == p /= ""

\* the body of useEffect(..., [partnerId]) for the rendered partnerId p
UseEffect(p) ==
    IF EffectGuard(p)
    THEN FetchEnabledFeaturesStart(p, FALSE)
    ELSE UNCHANGED <<isLoading, error, calls, inflight, enabledFeatures>>

\* the catch clause reading .message of whatever was thrown
ErrorMessageUnchecked(err) == err.value

\* the catch clause's message
ErrorMessage(err) ==
    IF err.isError THEN err.value ELSE "Failed to fetch enabled features"

\* the catch clause has no filter: every thrown value is handled
Caught(err) == TRUE

\* the continuation writing null over the data when the call failed
EnabledFeaturesClearedOnFailure(result, previous) ==
    IF result.ok THEN Some(result.value) ELSE NULL

\* setEnabledFeatures(features) is the only write of enabledFeatures and
\* sits after the await in the try block
EnabledFeaturesAfter(result, previous) ==
    IF result.ok THEN Some(result.value) ELSE previous

\* setIsLoading(false) at the end of the try block instead of in finally
IsLoadingAfterTryOnly(result, previous) == IF result.ok THEN FALSE ELSE previous

\* finally { setIsLoading(false) }
IsLoadingAfter(result, previous) == FALSE

\* fetchEnabledFeatures after its await, for the i-th in-flight call whose
\* getEnabledFeatures promise settled as result
FetchEnabledFeaturesResume(i, result) ==
    /\ enabledFeatures' = EnabledFeaturesAfter(result, enabledFeatures)
    /\ error' = IF ~result.ok /\ Caught(result.err) THEN Some(ErrorMessage(result.err)) ELSE error
    /\ isLoading' = IsLoadingAfter(result, isLoading)
    /\ escaped' = (escaped \/ (~result.ok /\ ~Caught(result.err)))
    /\ inflight' = SubSeq(inflight, 1, i - 1) \o SubSeq(inflight, i + 1, Len(inflight))
    /\ UNCHANGED <<partnerId, mounted, calls, refetches, partnerValues, rerendered, onlyEmpty>>
    /\ UNCHANGED <<uiVars, fnVars>>

\* first commit of the component: the effect runs once
Mount ==
    /\ ~mounted
    /\ mounted' = TRUE
    /\ UseEffect(partnerId)
    /\ partnerValues' = IF partnerId /= "" THEN partnerValues + 1 ELSE partnerValues
    /\ UNCHANGED <<partnerId, refetches, rerendered, onlyEmpty, lastSettled, escaped, received>>
    /\ UNCHANGED <<uiVars, fnVars>>

\* state cells that start from their initial value again in every render
UseStateReinitialised ==
    /\ enabledFeatures' = InitialEnabledFeatures
    /\ isLoading' = InitialIsLoading
    /\ error' = InitialError

\* useState hands a re-render the stored values, not the initial ones
UseStateKept == UNCHANGED <<enabledFeatures, isLoading, error>>

\* a re-render with the same partnerId: the dependency array is unchanged
Rerender ==
    /\ mounted
    /\ rerendered' = TRUE
    /\ UseStateKept
    /\ UNCHANGED <<partnerId, mounted, inflight, calls,
                   refetches, partnerValues, onlyEmpty, lastSettled, escaped, received>>
    /\ UNCHANGED <<uiVars, fnVars>>

\* a re-render with another partnerId: the effect runs again
ChangePartnerId(p) ==
    /\ mounted
    /\ p /= partnerId
    /\ partnerId' = p
    /\ UseEffect(p)
    /\ partnerValues' = IF p /= "" THEN partnerValues + 1 ELSE partnerValues
    /\ onlyEmpty' = (onlyEmpty /\ p = "")
    /\ UNCHANGED <<mounted, refetches, rerendered, lastSettled, escaped, received>>
    /\ UNCHANGED <<uiVars, fnVars>>

\* refetch(): the fetchEnabledFeatures closure of the latest render
Refetch ==
    /\ mounted
    /\ FetchEnabledFeaturesStart(partnerId, TRUE)
    /\ refetches' = refetches + 1
    /\ UNCHANGED <<partnerId, mounted, partnerValues, rerendered, onlyEmpty, lastSettled,
                   escaped, received>>
    /\ UNCHANGED <<uiVars, fnVars>>

\* what was on the wire of a 2xx response: its partnerId and the set of
\* names it gave status "enabled"
Payload(body) ==
    [partnerId |-> body.partnerId,
     hasFeatures |-> body.features /= NULL,
     enabled |-> IF body.features = NULL THEN {}
                 ELSE {body.features[1][k][1] : k \in {j \in 1..Len(body.features[1]) :
                                                         body.features[1][j][2] = "enabled"}}]

\* record of the i-th in-flight call settling
Settlement(i, result, payload) ==
    Some([id |-> inflight[i].id, partnerId |-> inflight[i].partnerId,
          overlapped |-> inflight[i].overlapped, refetch |-> inflight[i].refetch,
          alone |-> inflight[i].alone, result |-> result, payload |-> payload])

\* the request of the i-th in-flight call gets a 2xx response with this body
HttpResolves(i, body) ==
    /\ i \in 1..Len(inflight)
    /\ FetchEnabledFeaturesResume(i, GetEnabledFeatures([ok |-> TRUE, body |-> body]))
    /\ lastSettled' = Settlement(i, GetEnabledFeatures([ok |-> TRUE, body |-> body]),
                                 Some(Payload(body)))
    /\ received' = IF GetEnabledFeatures([ok |-> TRUE, body |-> body]).ok
                   THEN Some(Payload(body)) ELSE received

\* the request of the i-th in-flight call rejects with this value
HttpRejects(i, rej) ==
    /\ i \in 1..Len(inflight)
    /\ FetchEnabledFeaturesResume(i, GetEnabledFeatures([ok |-> FALSE, err |-> rej]))
    /\ lastSettled' = Settlement(i, GetEnabledFeatures([ok |-> FALSE, err |-> rej]), NULL)
    /\ UNCHANGED received

Next ==
    \/ Mount
    \/ Rerender
    \/ \E p \in PartnerIds : ChangePartnerId(p)
    \/ Refetch
    \/ \E i \in 1..MaxCalls, body \in Bodies : HttpResolves(i, body)
    \/ \E i \in 1..MaxCalls, rej \in Rejections : HttpRejects(i, rej)

Spec == Init /\ [][Next]_vars

\* ------------------------------------------------ FinancialProductsScreen
Includes(seq, x) == \E i \in 1..Len(seq) : seq[i] = x

\* the memo matching the names against screenName
EnabledProductsByScreenName(ef) ==
    IF ef = NULL THEN <<>>
    ELSE SelectSeq(FINANCIAL_PRODUCTS,
                   LAMBDA product : Includes(ef[1].enabledFeatureNames, product.screenName))

\* the enabledProducts memo
EnabledProducts(ef) ==
    IF ef = NULL THEN <<>>
    ELSE SelectSeq(FINANCIAL_PRODUCTS,
                   LAMBDA product : Includes(ef[1].enabledFeatureNames, product.name))

\* the screen testing the product list before the loading flag
FinancialProductsScreenListFirst(ef, loading) ==
    IF Len(EnabledProducts(ef)) > 0 THEN [view |-> "list", tiles |-> EnabledProducts(ef)]
    ELSE IF loading THEN [view |-> "loading", tiles |-> <<>>]
    ELSE [view |-> "empty", tiles |-> <<>>]

\* what the screen returns for a context value
FinancialProductsScreen(ef, loading) ==
    IF loading THEN [view |-> "loading", tiles |-> <<>>]
    ELSE IF Len(EnabledProducts(ef)) = 0 THEN [view |-> "empty", tiles |-> <<>>]
    ELSE [view |-> "list", tiles |-> EnabledProducts(ef)]

\* the tiles on screen when App feeds the provider from the hook
ShownTiles == FinancialProductsScreen(enabledFeatures, isLoading).tiles

\* ------------------------------------------------------- the tri-state
Loading == isLoading /\ enabledFeatures = NULL /\ error = NULL
Ready == ~isLoading /\ enabledFeatures /= NULL /\ error = NULL
Failed == ~isLoading /\ error /= NULL /\ enabledFeatures = NULL

TypeOK ==
    /\ partnerId \in PartnerIds
    /\ mounted \in BOOLEAN
    /\ isLoading \in BOOLEAN
    /\ Len(enabledFeatures) <= 1
    /\ Len(error) <= 1
    /\ calls \in 0..MaxCalls
    /\ Len(inflight) <= calls

\* a fetch settled in the step
SettledInStep == Len(inflight') < Len(inflight)
\* refetch() was called in the step
RefetchInStep == refetches' = refetches + 1
\* the set of elements of a sequence
Range(seq) == {seq[k] : k \in 1..Len(seq)}

\* ----------------------------------------------------------- properties

\* C1: in every reachable state exactly one of Loading, Ready and Failed
\* holds.
C1_ExactlyOneOutcome ==
    Cardinality({o \in {"Loading", "Ready", "Failed"} :
                    \/ o = "Loading" /\ Loading
                    \/ o = "Ready" /\ Ready
                    \/ o = "Failed" /\ Failed}) = 1

\* C2: once two fetches that were in flight together have both settled,
\* the outcome is exactly that of the fetch that settled last: Ready with
\* its data and no error, or Failed with its message and no data.
C2_LastSettledWins ==
    (inflight = <<>> /\ lastSettled /= NULL /\ lastSettled[1].overlapped) =>
        LET r == lastSettled[1].result
        IN  /\ ~isLoading
            /\ IF r.ok
               THEN enabledFeatures = Some(r.value) /\ error = NULL
               ELSE enabledFeatures = NULL /\ error /= NULL

\* the most recent fetch attempt of the hook ended in failure
MostRecentAttemptFailed ==
    /\ lastSettled /= NULL
    /\ lastSettled[1].id = calls
    /\ ~lastSettled[1].result.ok

\* C3: when the most recent fetch attempt ended in failure the screen
\* shows no product tile.
C3_NoTilesWhenFailed == MostRecentAttemptFailed => ShownTiles = <<>>

\* C4: a fetch attempt that ends in failure leaves enabledFeatures null.
C4_FailureLeavesNoData ==
    [][(SettledInStep /\ ~lastSettled'[1].result.ok) => enabledFeatures' = NULL]_vars

\* C5: a fetch that rejects leaves isLoading false and error equal to the
\* rejection's message when the value is an Error, to the fixed fallback
\* string otherwise, and the rejection does not leave the hook.
C5_RejectionBecomesError ==
    [][(SettledInStep /\ ~lastSettled'[1].result.ok) =>
          LET err == lastSettled'[1].result.err
          IN  /\ ~isLoading'
              /\ error' = Some(IF err.isError THEN err.value
                               ELSE "Failed to fetch enabled features")
              /\ ~escaped']_vars

\* C5 witness: a plain-string rejection has been turned into the fallback.
C5_Witness ==
    /\ lastSettled /= NULL
    /\ ~lastSettled[1].result.ok
    /\ ~lastSettled[1].result.err.isError
    /\ error = Some("Failed to fetch enabled features")
    /\ ~isLoading

\* C6: a fetch that succeeds leaves the hook Ready: isLoading false, error
\* null, enabledFeatures with the payload's partnerId and exactly the names
\* the payload gave status "enabled".
C6_SuccessBecomesReady ==
    [][(SettledInStep /\ lastSettled'[1].result.ok) =>
          LET payload == lastSettled'[1].payload[1]
          IN  /\ ~isLoading'
              /\ error' = NULL
              /\ enabledFeatures' /= NULL
              /\ enabledFeatures'[1].partnerId = payload.partnerId
              /\ Range(enabledFeatures'[1].enabledFeatureNames) = payload.enabled
              /\ Len(enabledFeatures'[1].enabledFeatureNames) = Cardinality(payload.enabled)]_vars

\* C7: while partnerId has been empty since creation and refetch() was not
\* called, no call reaches the fetch client and the outcome is Loading.
C7_EmptyPartnerNeverFetches ==
    (onlyEmpty /\ refetches = 0) => (calls = 0 /\ Loading)

\* C7 witness: a hook with an empty partnerId was mounted and re-rendered.
C7_Witness == onlyEmpty /\ mounted /\ rerendered /\ refetches = 0

\* C8: refetch() with an empty partnerId issues no call to the fetch client
\* and leaves the outcome Loading.
C8_RefetchEmptyNoCall ==
    [][(RefetchInStep /\ partnerId = "") => (calls' = calls /\ (Loading => Loading'))]_vars

\* C9: the number of calls to the fetch client is the number of new
\* non-empty partnerId values (the mount included) plus the number of
\* refetch() calls; a failure adds no call.
C9_CallCount == calls = partnerValues + refetches

\* C9 witness: a mount fetch and a refetch were counted, and the last fetch
\* failed with nothing left in flight.
C9_Witness ==
    /\ partnerValues >= 1
    /\ refetches >= 1
    /\ inflight = <<>>
    /\ lastSettled /= NULL
    /\ ~lastSettled[1].result.ok

\* C10: before any fetch settles the hook is Loading.
C10_LoadingBeforeFirstSettle == lastSettled = NULL => Loading

\* C10 witness: a fetch is in flight and none has settled.
C10_Witness == mounted /\ inflight /= <<>> /\ lastSettled = NULL

\* C13: a 2xx response whose body lacks the features map ends the fetch as
\* a failure: isLoading false, error set, enabledFeatures not written, and
\* nothing thrown out of the hook.
C13_MissingFeaturesFails ==
    [][(SettledInStep /\ lastSettled'[1].payload /= NULL
                      /\ ~lastSettled'[1].payload[1].hasFeatures) =>
          /\ ~isLoading'
          /\ error' /= NULL
          /\ enabledFeatures' = enabledFeatures
          /\ ~escaped']_vars

\* C13 witness: a response without features has settled into an error.
C13_Witness ==
    /\ lastSettled /= NULL
    /\ lastSettled[1].payload /= NULL
    /\ ~lastSettled[1].payload[1].hasFeatures
    /\ ~isLoading
    /\ error /= NULL

\* ------------------------------------------- the pure functions, applied
MaxEntries == 3        \* entries in a decoded features map
MaxNames == 3          \* names in an enabledFeatureNames list given to the filter
MaxIdLen == 2          \* characters in a partnerId put into the URL

\* names and statuses of the maps given to the decoder; the last three
\* statuses are not the literal "enabled"
DecodeNames == {"AVC", "Wills", "Pet Insurance"}
DecodeStatuses == {"enabled", "disabled", "Enabled", " enabled ", "on"}
DecodeMaps ==
    {m \in SeqsUpTo(DecodeNames \X DecodeStatuses, MaxEntries) :
        \A i, j \in 1..Len(m) : i /= j => m[i][1] /= m[j][1]}

\* names of the lists given to the filter; two are names of no product
FilterNames == {"AVC", "Wills", "Payroll Savings", "PayrollSavings", "Pet Insurance"}
FilterInputs ==
    {NULL} \cup {Some([partnerId |-> "p1", enabledFeatureNames |-> n]) :
                    n \in SeqsUpTo(FilterNames, MaxNames)}

\* characters of the partnerIds put into the URL
IdChars == {"a", "b", "/", "?", "#", "%"}
UrlPartnerIds == SeqsUpTo(IdChars, MaxIdLen) \ {<<>>}

\* the template literal `/api/partners/${partnerId}/features`, as a
\* sequence of characters and literal chunks
FeaturesUrl(pid) == <<"/", "api", "/", "partners", "/">> \o pid \o <<"/", "features">>

\* index of the first element of s that is in set, Len(s) + 1 if none
FirstIn(s, set) ==
    IF \E i \in 1..Len(s) : s[i] \in set
    THEN CHOOSE i \in 1..Len(s) : s[i] \in set /\ \A j \in 1..(i - 1) : s[j] \notin set
    ELSE Len(s) + 1

\* the pieces of s between "/" characters
RECURSIVE Segments(_, _)
Segments(s, cur) ==
    IF s = <<>> THEN <<cur>>
    ELSE IF Head(s) = "/" THEN <<cur>> \o Segments(Tail(s), <<>>)
    ELSE Segments(Tail(s), Append(cur, Head(s)))

\* how the relative URL handed to http.get is read: the path ends at the
\* first "?" or "#", the query at the first "#"
RequestTarget(url) ==
    LET hash == FirstIn(url, {"#"})
        beforeHash == SubSeq(url, 1, hash - 1)
        mark == FirstIn(beforeHash, {"?"})
    IN  [segments |-> Tail(Segments(SubSeq(beforeHash, 1, mark - 1), <<>>)),
         query |-> SubSeq(beforeHash, mark, Len(beforeHash)),
         fragment |-> SubSeq(url, hash, Len(url))]

\* the decoder applied to a response body carrying a features map
DecodeStep ==
    /\ \E m \in DecodeMaps :
          fnCall' = [op |-> "decode", arg |-> m,
                     out |-> GetEnabledFeatures([ok |-> TRUE,
                                 body |-> [partnerId |-> "p1", features |-> Some(m)]])]
    /\ UNCHANGED <<hookVars, uiVars>>

\* the enabledProducts memo computed for a context value
FilterStep ==
    /\ \E ef \in FilterInputs :
          fnCall' = [op |-> "filter", arg |-> ef, out |-> EnabledProducts(ef)]
    /\ UNCHANGED <<hookVars, uiVars>>

\* the request URL built for a partnerId
UrlStep ==
    /\ \E pid \in UrlPartnerIds :
          fnCall' = [op |-> "url", arg |-> pid,
                     out |-> [url |-> FeaturesUrl(pid),
                              target |-> RequestTarget(FeaturesUrl(pid))]]
    /\ UNCHANGED <<hookVars, uiVars>>

InitFn == Init /\ partnerId = "p1"

NextFn == DecodeStep \/ FilterStep \/ UrlStep

SpecFn == InitFn /\ [][NextFn]_vars

\* C11: for a map with k entries of status "enabled" the decoder returns
\* exactly k names, each enabled in the input, none repeated, in the
\* iteration order of the input.
C11_DecoderReturnsEnabledInOrder ==
    fnCall.op = "decode" =>
        LET m == fnCall.arg
            names == fnCall.out.value.enabledFeatureNames
            pos(n) == CHOOSE i \in 1..Len(m) : m[i][1] = n
        IN  /\ fnCall.out.ok
            /\ Len(names) = Cardinality({i \in 1..Len(m) : m[i][2] = "enabled"})
            /\ \A j \in 1..Len(names) : \E i \in 1..Len(m) : m[i] = <<names[j], "enabled">>
            /\ \A a, b \in 1..Len(names) : a /= b => names[a] /= names[b]
            /\ \A a, b \in 1..Len(names) : a < b => pos(names[a]) < pos(names[b])

\* C11 witness: a three-entry map with two enabled entries around one that
\* is not was decoded into two names.
C11_Witness ==
    /\ fnCall.op = "decode"
    /\ Len(fnCall.arg) = 3
    /\ fnCall.arg[1][2] = "enabled"
    /\ fnCall.arg[2][2] = "disabled"
    /\ fnCall.arg[3][2] = "enabled"
    /\ Len(fnCall.out.value.enabledFeatureNames) = 2

\* C12: decoding never fails on a status value; an entry whose status is
\* not exactly "enabled" is left out and every "enabled" entry is kept.
C12_OtherStatusesLeftOut ==
    fnCall.op = "decode" =>
        LET m == fnCall.arg
        IN  /\ fnCall.out.ok
            /\ \A i \in 1..Len(m) :
                  (m[i][2] = "enabled") <=>
                      (m[i][1] \in Range(fnCall.out.value.enabledFeatureNames))

\* C12 witness: a map with a case variant, a padded variant and one
\* "enabled" entry was decoded into that one name.
C12_Witness ==
    /\ fnCall.op = "decode"
    /\ Len(fnCall.arg) = 3
    /\ {fnCall.arg[i][2] : i \in 1..3} = {"Enabled", " enabled ", "enabled"}
    /\ fnCall.out.ok
    /\ Len(fnCall.out.value.enabledFeatureNames) = 1

\* C14: the product set is exactly the catalog products whose name is in
\* enabledFeatureNames, in catalog order; it is empty for null and for an
\* empty list, and a name of no product adds nothing.
C14_FilterIsCatalogIntersection ==
    fnCall.op = "filter" =>
        LET ef == fnCall.arg
            out == fnCall.out
            keep == {i \in 1..Len(FINANCIAL_PRODUCTS) :
                        ef /= NULL /\ FINANCIAL_PRODUCTS[i].name \in Range(ef[1].enabledFeatureNames)}
            idx(product) == CHOOSE i \in 1..Len(FINANCIAL_PRODUCTS) : FINANCIAL_PRODUCTS[i] = product
        IN  /\ Len(out) = Cardinality(keep)
            /\ \A j \in 1..Len(out) : \E i \in keep : out[j] = FINANCIAL_PRODUCTS[i]
            /\ \A a, b \in 1..Len(out) : a < b => idx(out[a]) < idx(out[b])
            /\ (ef = NULL => out = <<>>)
            /\ (ef /= NULL /\ ef[1].enabledFeatureNames = <<>> => out = <<>>)

\* C14 witness: names given as Payroll Savings, a name of no product, AVC
\* gave the AVC and Payroll Savings products in catalog order.
C14_Witness ==
    /\ fnCall.op = "filter"
    /\ fnCall.arg /= NULL
    /\ fnCall.arg[1].enabledFeatureNames = <<"Payroll Savings", "Pet Insurance", "AVC">>
    /\ Len(fnCall.out) = 2
    /\ fnCall.out[1].id = "fp1"
    /\ fnCall.out[2].id = "fp5"

\* C20: the request path is /api/partners/{partnerId}/features with the
\* partnerId percent-encoded, so that the request has exactly the four
\* path segments api, partners, the partnerId, features and no query.
C20_PartnerIdPathEncoded ==
    fnCall.op = "url" =>
        LET pid == fnCall.arg
            enc(c) == CASE c = "/" -> "%2F" [] c = "?" -> "%3F"
                        [] c = "#" -> "%23" [] c = "%" -> "%25" [] OTHER -> c
            encoded == [i \in 1..Len(pid) |-> enc(pid[i])]
        IN  /\ fnCall.out.url = <<"/", "api", "/", "partners", "/">> \o encoded \o <<"/", "features">>
            /\ fnCall.out.target.segments = <<<<"api">>, <<"partners">>, encoded, <<"features">>>>
            /\ fnCall.out.target.query = <<>>
            /\ fnCall.out.target.fragment = <<>>

\* ------------------------------------------------- the component tree
MaxUiNames == 2        \* names in the enabledFeatureNames the hook returns
MaxPresses == 2        \* presses on tiles in one behaviour

\* results of useEnabledFeatures handed to App
UiNames == {"AVC", "Payroll Savings", "Pet Insurance"}
HookResults ==
    [enabledFeatures : {NULL} \cup {Some([partnerId |-> "p1", enabledFeatureNames |-> n]) :
                                       n \in SeqsUpTo(UiNames, MaxUiNames)},
     isLoading : BOOLEAN,
     error : {NULL, Some("Network error")}]

\* names of the Stack.Screen elements of App
StackScreens == {"FinancialProducts", "AVC", "Mortgages", "Wills", "Protection", "PayrollSavings"}

\* App passing the hook's error as null
AppProviderPropsNoError(h) ==
    [enabledFeatures |-> h.enabledFeatures, isLoading |-> h.isLoading, error |-> NULL]

\* the props App gives to EnabledFeaturesProvider
AppProviderProps(h) ==
    [enabledFeatures |-> h.enabledFeatures, isLoading |-> h.isLoading, error |-> h.error]

\* the context value of EnabledFeaturesProvider for its props
EnabledFeaturesProvider(props) ==
    Some([enabledFeatures |-> props.enabledFeatures,
          isLoading |-> props.isLoading,
          error |-> props.error])

\* the consumer hook falling back to a default value
UseEnabledFeaturesContextDefault(context) ==
    IF context = NULL
    THEN [threw |-> FALSE,
          value |-> [enabledFeatures |-> NULL, isLoading |-> TRUE, error |-> NULL]]
    ELSE [threw |-> FALSE, value |-> context[1]]

\* useEnabledFeaturesContext for the context value in scope (NULL: undefined)
UseEnabledFeaturesContext(context) ==
    IF context = NULL
    THEN [threw |-> TRUE,
          message |-> "useEnabledFeaturesContext must be used within an EnabledFeaturesProvider"]
    ELSE [threw |-> FALSE, value |-> context[1]]

\* the texts of the two placeholder views
ScreenText(view) ==
    CASE view = "loading" -> "Loading products..."
      [] view = "empty" -> "No products available"
      [] OTHER -> ""

\* the tile component: it renders the name; the onPress prop is not handed
\* to its Pressable
FinancialProductGridTile(name, onPress) ==
    [text |-> name, onPress |-> onPress, pressableOnPress |-> NULL]

\* pressHandler(screenName): navigation.navigate(screenName)
PressHandler(screenName, navigated) == Append(navigated, screenName)

\* one render of FinancialProductsScreen under the context value in scope
RenderScreen(context) ==
    LET used == UseEnabledFeaturesContext(context)
    IN  IF used.threw THEN [threw |-> TRUE, message |-> used.message]
        ELSE LET out == FinancialProductsScreen(used.value.enabledFeatures, used.value.isLoading)
             IN  [threw |-> FALSE,
                  consumed |-> used.value,
                  view |-> out.view,
                  text |-> ScreenText(out.view),
                  tiles |-> [i \in 1..Len(out.tiles) |->
                                FinancialProductGridTile(out.tiles[i].name,
                                                         Some(out.tiles[i].screenName))]]

\* an object reference that is not ref: references are 1 and 2, which is
\* enough to tell an object from the one of the render before
OtherRef(ref) == IF ref = 1 THEN 2 ELSE 1

\* the object the enabledFeatures prop is: null, the object of the render
\* before, or an object created since
EfRef(h, fresh) ==
    IF h.enabledFeatures = NULL THEN 0
    ELSE IF fresh THEN OtherRef(uiEfRef)
    ELSE uiEfRef

\* the context value built anew in every render: value={{ ... }}
UseMemoNone(cell, deps) ==
    Some([deps |-> deps, valueRef |-> IF cell = NULL THEN 1 ELSE OtherRef(cell[1].valueRef)])

\* useMemo(() => ({ enabledFeatures, isLoading, error }), deps): the stored
\* object while every dependency is the same (Object.is), a new one
\* otherwise
UseMemo(cell, deps) ==
    IF cell /= NULL /\ cell[1].deps = deps THEN cell
    ELSE Some([deps |-> deps, valueRef |-> IF cell = NULL THEN 1 ELSE OtherRef(cell[1].valueRef)])

\* the dependency array of the provider's memo: the object for
\* enabledFeatures, the values for the boolean and the string
MemoDeps(h, ref) == <<ref, h.isLoading, h.error>>

\* App renders with a hook result: provider, then the screen below it;
\* fresh tells whether a non-null enabledFeatures is an object created
\* since the render before
RenderApp(h, fresh) ==
    /\ uiScreen = NULL \/ uiProvided
    /\ h.enabledFeatures = NULL => ~fresh
    /\ (h.enabledFeatures /= NULL /\ ~fresh) =>
           (uiHook /= NULL /\ uiHook[1].enabledFeatures = h.enabledFeatures)
    /\ uiHook' = Some(h)
    /\ uiProvided' = TRUE
    /\ uiEfRef' = EfRef(h, fresh)
    /\ uiMemo' = UseMemo(uiMemo, MemoDeps(AppProviderProps(h), EfRef(h, fresh)))
    /\ uiValueKept' = IF uiMemo = NULL THEN "first"
                      ELSE IF uiMemo'[1].valueRef = uiMemo[1].valueRef THEN "same"
                      ELSE "new"
    /\ uiContext' = EnabledFeaturesProvider(AppProviderProps(h))
    /\ uiScreen' = Some(RenderScreen(EnabledFeaturesProvider(AppProviderProps(h))))
    /\ UNCHANGED <<uiPresses, uiNavigated, hookVars, fnVars>>

\* the screen is rendered with no provider above it
RenderWithoutProvider ==
    /\ uiScreen = NULL
    /\ uiProvided' = FALSE
    /\ uiContext' = NULL
    /\ uiScreen' = Some(RenderScreen(NULL))
    /\ UNCHANGED <<uiHook, uiPresses, uiNavigated, uiEfRef, uiMemo, uiValueKept,
                   hookVars, fnVars>>

\* the user presses the i-th tile on screen
Press(i) ==
    /\ uiScreen /= NULL
    /\ ~uiScreen[1].threw
    /\ i \in 1..Len(uiScreen[1].tiles)
    /\ Len(uiPresses) < MaxPresses
    /\ uiPresses' = Append(uiPresses, uiScreen[1].tiles[i].text)
    /\ uiNavigated' = IF uiScreen[1].tiles[i].pressableOnPress = NULL
                      THEN uiNavigated
                      ELSE PressHandler(uiScreen[1].tiles[i].pressableOnPress[1], uiNavigated)
    /\ UNCHANGED <<uiHook, uiProvided, uiContext, uiScreen, uiEfRef, uiMemo, uiValueKept,
                   hookVars, fnVars>>

InitUI == Init /\ partnerId = "p1"

NextUI ==
    \/ \E h \in HookResults, fresh \in BOOLEAN : RenderApp(h, fresh)
    \/ RenderWithoutProvider
    \/ \E i \in 1..Len(FINANCIAL_PRODUCTS) : Press(i)

SpecUI == InitUI /\ [][NextUI]_vars

\* the catalog products whose name the hook result lists
ListedProducts(h) ==
    {i \in 1..Len(FINANCIAL_PRODUCTS) :
        h.enabledFeatures /= NULL
        /\ FINANCIAL_PRODUCTS[i].name \in Range(h.enabledFeatures[1].enabledFeatureNames)}

\* C15: with isLoading true the screen shows the loading indicator and no
\* tile, even with data present; with isLoading false and no product to
\* show it shows the empty-state message, a different text; tiles appear
\* only with isLoading false and a non-empty product set.
C15_LoadingEmptyOrTiles ==
    (uiScreen /= NULL /\ uiProvided) =>
        LET h == uiHook[1]
            scr == uiScreen[1]
        IN  /\ h.isLoading => (scr.text = "Loading products..." /\ scr.tiles = <<>>)
            /\ (~h.isLoading /\ ListedProducts(h) = {}) =>
                   (scr.text = "No products available" /\ scr.tiles = <<>>)
            /\ (~h.isLoading /\ ListedProducts(h) /= {}) =>
                   Len(scr.tiles) = Cardinality(ListedProducts(h))
            /\ ScreenText("loading") /= ScreenText("empty")

\* C15 witness: loading with data that lists a product shows the indicator.
C15_Witness ==
    /\ uiScreen /= NULL
    /\ uiProvided
    /\ uiHook[1].isLoading
    /\ ListedProducts(uiHook[1]) /= {}
    /\ uiScreen[1].text = "Loading products..."

\* C16: without a provider useEnabledFeaturesContext throws its fixed
\* error and returns nothing; inside a provider it never throws, also
\* when enabledFeatures is null.
C16_ThrowsOutsideProvider ==
    uiScreen /= NULL =>
        /\ ~uiProvided =>
              /\ uiScreen[1].threw
              /\ uiScreen[1].message =
                     "useEnabledFeaturesContext must be used within an EnabledFeaturesProvider"
        /\ uiProvided => ~uiScreen[1].threw

\* C16 witness: the screen was rendered with no provider and threw.
C16_Witness == uiScreen /= NULL /\ ~uiProvided /\ uiScreen[1].threw

\* C17: inside the provider the consumer gets exactly the enabledFeatures,
\* isLoading and error the hook returned to App.
C17_ConsumedEqualsHook ==
    (uiScreen /= NULL /\ uiProvided) =>
        /\ ~uiScreen[1].threw
        /\ uiScreen[1].consumed.enabledFeatures = uiHook[1].enabledFeatures
        /\ uiScreen[1].consumed.isLoading = uiHook[1].isLoading
        /\ uiScreen[1].consumed.error = uiHook[1].error

\* C17 witness: a hook result with data and an error was consumed.
C17_Witness ==
    /\ uiScreen /= NULL
    /\ uiProvided
    /\ uiHook[1].error /= NULL
    /\ uiHook[1].enabledFeatures /= NULL
    /\ uiScreen[1].consumed.error = uiHook[1].error

\* the tile pressed in the step
PressInStep == Len(uiPresses') = Len(uiPresses) + 1

\* C18: a press on the tile of a visible product calls navigate exactly
\* once, with that product's screenName; no other navigate call is made.
C18_PressNavigates ==
    [][/\ PressInStep =>
            \E i \in 1..Len(FINANCIAL_PRODUCTS) :
                /\ FINANCIAL_PRODUCTS[i].name = uiPresses'[Len(uiPresses')]
                /\ uiNavigated' = Append(uiNavigated, FINANCIAL_PRODUCTS[i].screenName)
       /\ ~PressInStep => uiNavigated' = uiNavigated]_vars

ProviderRerenderInStep ==
    /\ uiMemo /= NULL
    /\ uiProvided'
    /\ Len(uiPresses') = Len(uiPresses)

C21_RefetchSuccessIsReady ==
    [][(SettledInStep /\ lastSettled'[1].refetch /\ lastSettled'[1].alone
                      /\ lastSettled'[1].result.ok) =>
          /\ ~isLoading'
          /\ error' = NULL
          /\ enabledFeatures' = Some(lastSettled'[1].result.value)]_vars

\* C24: while a fetch of the hook has not settled, isLoading is true.
C24_LoadingWhileInFlight == inflight /= <<>> => isLoading

\* C26: once no fetch is in flight and the hook has a non-empty partnerId,
\* data stored by the fetch that settled last was fetched for that
\* partnerId.
C26_DataIsForCurrentPartner ==
    (inflight = <<>> /\ partnerId /= "" /\ lastSettled /= NULL /\ lastSettled[1].result.ok) =>
        /\ enabledFeatures = Some(lastSettled[1].result.value)
        /\ lastSettled[1].partnerId = partnerId

\* C27: isLoading true implies error null.
C27_LoadingHasNoError == isLoading => error = NULL

\* C27 witness: a fetch is in flight after an earlier fetch failed, and the
\* earlier error is gone.
C27_Witness ==
    /\ isLoading
    /\ inflight /= <<>>
    /\ lastSettled /= NULL
    /\ ~lastSettled[1].result.ok
    /\ error = NULL

\* a fetch attempt started in the step
StartInStep == calls' = calls + 1

\* C28: enabledFeatures is written only by the settling of a successful
\* fetch: a step that starts an attempt and a step in which a fetch fails
\* leave it as it was.
C28_OnlySuccessWritesData ==
    [][/\ StartInStep => enabledFeatures' = enabledFeatures
       /\ (SettledInStep /\ ~lastSettled'[1].result.ok) => enabledFeatures' = enabledFeatures
       /\ enabledFeatures' /= enabledFeatures =>
              (SettledInStep /\ lastSettled'[1].result.ok)]_vars

\* C28 witness: data of an earlier success is still there after a later
\* attempt, alone in flight, has failed.
C28_Witness ==
    /\ enabledFeatures /= NULL
    /\ lastSettled /= NULL
    /\ ~lastSettled[1].result.ok
    /\ lastSettled[1].alone
    /\ ~lastSettled[1].overlapped
    /\ inflight = <<>>

\* C29: every tile on screen is a catalog product whose name has status
\* "enabled" in the payload received by the fetch that stored the data on
\* screen, and there is no tile while no fetch has succeeded.
C29_TilesComeFromReceivedPayloads ==
    /\ \A k \in 1..Len(ShownTiles) :
          /\ ShownTiles[k] \in Range(FINANCIAL_PRODUCTS)
          /\ received /= NULL
          /\ ShownTiles[k].name \in received[1].enabled
    /\ received = NULL => (enabledFeatures = NULL /\ ShownTiles = <<>>)

\* C29 witness: a tile of an earlier payload is on screen after a later
\* fetch failed.
C29_Witness ==
    /\ ShownTiles /= <<>>
    /\ received /= NULL
    /\ lastSettled /= NULL
    /\ ~lastSettled[1].result.ok

\* ------------------------------------------------ the hook, with progress
\* some in-flight request settles
Settles ==
    \/ \E i \in 1..MaxCalls, body \in Bodies : HttpResolves(i, body)
    \/ \E i \in 1..MaxCalls, rej \in Rejections : HttpRejects(i, rej)

\* a hook created with a non-empty partnerId
InitLive == Init /\ partnerId = "p1"

\* the steps that start or settle a fetch
NextLive ==
    \/ Mount
    \/ \E p \in PartnerIds : ChangePartnerId(p)
    \/ Refetch
    \/ \E i \in 1..MaxCalls, body \in Bodies : HttpResolves(i, body)
    \/ \E i \in 1..MaxCalls, rej \in Rejections : HttpRejects(i, rej)

\* React runs the mount effect after the first commit, and every request
\* that was issued gets its response or its rejection
SpecLive == InitLive /\ [][NextLive]_vars /\ WF_vars(Mount) /\ WF_vars(Settles)

\* C25: for a hook with a non-empty partnerId whose fetches all settle,
\* isLoading is eventually false for good, and it is false whenever the
\* mounted hook has no fetch in flight.
C25_EventuallyNotLoading ==
    /\ <>[](~isLoading)
    /\ [](mounted /\ inflight = <<>> => ~isLoading)

\* C25 witness: after a refetch whose fetch failed nothing is in flight and
\* isLoading is false.
C25_Witness ==
    /\ mounted
    /\ refetches >= 1
    /\ inflight = <<>>
    /\ lastSettled /= NULL
    /\ ~lastSettled[1].result.ok
    /\ ~isLoading

\* ------------------------------------- the hook and the tree it feeds
\* what useEnabledFeatures returns to App from its state
HookResult ==
    [enabledFeatures |-> enabledFeatures, isLoading |-> isLoading, error |-> error]

\* App renders with the hook's current state
RenderTree == \E fresh \in BOOLEAN : RenderApp(HookResult, fresh)

\* a tile of the rendered screen is pressed
PressTile == \E i \in 1..Len(FINANCIAL_PRODUCTS) : Press(i)

\* App gives the hook a constant partnerId and does not take refetch from
\* its result: the hook of the app mounts, re-renders and has its one
\* fetch settled
InitApp == Init /\ partnerId = "p1"

NextApp ==
    \/ Mount
    \/ Rerender
    \/ \E i \in 1..MaxCalls, body \in Bodies : HttpResolves(i, body)
    \/ \E i \in 1..MaxCalls, rej \in Rejections : HttpRejects(i, rej)
    \/ RenderTree
    \/ PressTile

SpecApp == InitApp /\ [][NextApp]_vars

\* C22: enabledFeatures, isLoading and error change only in a step in
\* which the hook starts a fetch attempt or one of its fetches settles;
\* rendering the tree, consuming the context and pressing a tile leave
\* them as they are.
C22_OutcomeChangesOnlyByFetch ==
    [][<<enabledFeatures, isLoading, error>>' /= <<enabledFeatures, isLoading, error>> =>
          (StartInStep \/ SettledInStep)]_vars

\* C22 witness: data has been rendered into tiles, a tile was pressed and
\* the hook re-rendered, with the data still in place.
C22_Witness ==
    /\ enabledFeatures /= NULL
    /\ uiScreen /= NULL
    /\ uiPresses /= <<>>
    /\ rerendered
    /\ uiHook = Some(HookResult)
====
